---- MODULE Spec2Model ----
(***************************************************************************)
(* Model of the mini workflow engine: the tool registry, the graph and run *)
(* data model, edge selection, execute_graph, the endpoints that create    *)
(* graphs and start background runs, and the websocket log observer,       *)
(* interleaved as asyncio tasks on one event loop.                         *)
(***************************************************************************)
EXTENDS Integers, Sequences, FiniteSets, TLC

\* Bounds of the model.
MaxRuns == 2      \* runs that are started
MaxVisits == 3    \* node visits per run (length of run.log)
MaxGraphs == 2    \* create_graph requests that are sent

\* Python's None for the Optional[str] fields.
Null == "<null>"

(***************************************************************************)
(* Values held in the state mapping and in EdgeDef.value.  A value is a    *)
(* tagged record; a list value is a reference into the run's object heap,  *)
(* because Python lists are shared by reference.                           *)
(***************************************************************************)
IntV(n) == [t |-> "int", v |-> n]
BoolV(b) == [t |-> "bool", v |-> IF b THEN 1 ELSE 0]
StrV(i) == [t |-> "str", v |-> i]
ListV(a) == [t |-> "list", v |-> a]
NoneV == [t |-> "none", v |-> 0]
\* a list by its items: a list literal of an edge value, or a list of the
\* state read through its reference
ItemsV(items) == [t |-> "items", v |-> items]
\* marks a key that the mapping does not contain
Absent == [t |-> "absent", v |-> 0]

\* The keys the mappings of the model use.
Keys == {"x", "code", "issues", "issue_count", "count"}

EmptyState == [k \in Keys |-> Absent]

\* Mutant of Get: an absent key reads as a value of its own, not as None.
GetMissing(state, key) == state[key]

\* dict.get(key): an absent key reads as None
Get(state, key) == IF state[key] = Absent THEN NoneV ELSE state[key]

\* bool is a subclass of int in Python: True == 1, False < 1
Numeric(a) == a.t \in {"int", "bool"}

\* a < b is defined between two numbers and between two strings (no edge
\* of the model orders lists)
Comparable(a, b) ==
    \/ Numeric(a) /\ Numeric(b)
    \/ a.t = "str" /\ b.t = "str"

\* a == b: numbers by value, lists by their items, values of different
\* types are unequal
PyEq(a, b) ==
    IF Numeric(a) /\ Numeric(b) THEN a.v = b.v ELSE a.t = b.t /\ a = b

\* The mapping as the code reads it: a list value stands for the items the
\* list object holds in the heap `hp` at the time of reading.
View(state, hp) ==
    [k \in DOMAIN state |->
       IF state[k].t = "list" THEN ItemsV(hp[state[k].v]) ELSE state[k]]

\* Mutant of _compare: lt is evaluated as lte.
_compareLtAsLte(a, op, b) ==
    CASE op = "eq" -> [raised |-> FALSE, result |-> PyEq(a, b)]
      [] op = "ne" -> [raised |-> FALSE, result |-> ~PyEq(a, b)]
      [] op \in {"lt", "gt", "lte", "gte"} ->
            IF ~Comparable(a, b)
            THEN [raised |-> TRUE, result |-> FALSE]
            ELSE [raised |-> FALSE,
                  result |-> CASE op = "lt" -> a.v <= b.v
                               [] op = "gt" -> a.v > b.v
                               [] op = "lte" -> a.v <= b.v
                               [] op = "gte" -> a.v >= b.v]

\* _compare(a, op, b): raised is TRUE when Python raises TypeError
_compare(a, op, b) ==
    CASE op = "eq" -> [raised |-> FALSE, result |-> PyEq(a, b)]
      [] op = "ne" -> [raised |-> FALSE, result |-> ~PyEq(a, b)]
      [] op \in {"lt", "gt", "lte", "gte"} ->
            IF ~Comparable(a, b)
            THEN [raised |-> TRUE, result |-> FALSE]
            ELSE [raised |-> FALSE,
                  result |-> CASE op = "lt" -> a.v < b.v
                               [] op = "gt" -> a.v > b.v
                               [] op = "lte" -> a.v <= b.v
                               [] op = "gte" -> a.v >= b.v]

\* EdgeDef: condition_key, operator and value have defaults None, "eq", None
EdgeDef(from, to, key, op, value) ==
    [from_node |-> from, to_node |-> to, condition_key |-> key,
     operator |-> op, value |-> value]

Edge(from, to) == EdgeDef(from, to, Null, "eq", NoneV)

Reverse(seq) == [i \in 1..Len(seq) |-> seq[Len(seq) + 1 - i]]

\* Mutant of Candidates: the edges are tried last-declared first.
CandidatesReversed(graph, node_name) ==
    Reverse(SelectSeq(graph.edges, LAMBDA e : e.from_node = node_name))

\* the candidates list of _next_node_name
Candidates(graph, node_name) ==
    SelectSeq(graph.edges, LAMBDA e : e.from_node = node_name)

\* Mutant of TryEdge: the result of the comparison is not tested, so a
\* conditional edge is taken whenever its comparison is defined.
TryEdgeUntested(edge, state) ==
    IF edge.condition_key = Null
    THEN "match"
    ELSE IF _compare(Get(state, edge.condition_key),
                     edge.operator, edge.value).raised
    THEN "raise" ELSE "match"

\* the body of the for loop of _next_node_name for one edge: the edge is
\* taken ("match"), passed over ("skip"), or its comparison raises ("raise")
TryEdge(edge, state) ==
    IF edge.condition_key = Null
    THEN "match"
    ELSE LET c == _compare(Get(state, edge.condition_key),
                           edge.operator, edge.value)
         IN IF c.raised THEN "raise"
            ELSE IF c.result THEN "match" ELSE "skip"

\* the for loop of _next_node_name over the candidates, from index i on
RECURSIVE ScanEdges(_, _, _)
ScanEdges(candidates, i, state) ==
    IF i > Len(candidates)
    THEN [raised |-> FALSE, next |-> Null]
    ELSE IF TryEdge(candidates[i], state) = "match"
    THEN [raised |-> FALSE, next |-> candidates[i].to_node]
    ELSE IF TryEdge(candidates[i], state) = "raise"
    THEN [raised |-> TRUE, next |-> Null]
    ELSE ScanEdges(candidates, i + 1, state)

_next_node_name(graph, node_name, state) ==
    ScanEdges(Candidates(graph, node_name), 1, state)

(***************************************************************************)
(* Tools.  A handler is described by whether it is a coroutine function    *)
(* and by the name of its body; Body gives what each body does to the      *)
(* state mapping it receives and to the run's object heap.                 *)
(***************************************************************************)

\* The strings the model uses, numbered in lexicographic order:
\*   1 = "print(x)  # TODO"     2 = "x = 1"
HasPrint(s) == s = 1
HasTodo(s) == s = 1
HasDoubleSpace(s) == s = 1

\* _get_code followed by the three substring tests of detect_basic_issues;
\* the text of a missing or non-string code value contains none of them
IssuesOf(state) ==
    LET code == state["code"]
        isStr == code.t = "str"
    IN (IF isStr /\ HasPrint(code.v) THEN <<1>> ELSE <<>>)
       \o (IF isStr /\ HasTodo(code.v) THEN <<2>> ELSE <<>>)
       \o (IF isStr /\ HasDoubleSpace(code.v) THEN <<3>> ELSE <<>>)

Ok(state, hp) == [outcome |-> "ok", state |-> state, heap |-> hp]
Raise(state, hp) == [outcome |-> "raise", state |-> state, heap |-> hp]

\* What a handler body does when called with the mapping `state`:
\*   outcome "ok": it returns the mapping `state` of the result
\*   outcome "raise": it raises
\*   outcome "hang": it never returns
Body(body, state, hp) ==
    CASE body = "detect_basic_issues" ->
            \* state["issues"] = issues (a new list); state["issue_count"] = len
            LET issues == IssuesOf(state)
            IN Ok([state EXCEPT !["issues"] = ListV(Len(hp) + 1),
                                !["issue_count"] = IntV(Len(issues))],
                  Append(hp, issues))
      [] body = "inc" ->
            \* state["x"] += 1
            IF Numeric(state["x"])
            THEN Ok([state EXCEPT !["x"] = IntV(state["x"].v + 1)], hp)
            ELSE Raise(state, hp)
      [] body = "push" ->
            \* state["issues"].append(0): the list object is changed in place
            IF state["issues"].t = "list"
            THEN Ok(state, [hp EXCEPT ![state["issues"].v] = Append(@, 0)])
            ELSE Raise(state, hp)
      [] body = "inc_count" ->
            \* state["count"] += 1
            IF Numeric(state["count"])
            THEN Ok([state EXCEPT !["count"] = IntV(state["count"].v + 1)], hp)
            ELSE Raise(state, hp)
      [] body = "toggle" ->
            \* state["x"] = not state["x"]
            Ok([state EXCEPT !["x"] = BoolV(Get(state, "x").v = 0)], hp)
      [] body = "fresh" ->
            \* return {"x": 1}: a new mapping, the one passed in is left alone
            Ok([EmptyState EXCEPT !["x"] = IntV(1)], hp)
      [] body = "noop" -> Ok(state, hp)
      [] body = "boom" -> Raise(state, hp)
      [] body = "hang" -> [outcome |-> "hang", state |-> state, heap |-> hp]

Func(coroutine, body) == [coroutine |-> coroutine, body |-> body]

\* ToolRegistry.register: a coroutine function is stored as it is, a plain
\* function is wrapped in a coroutine that calls it without suspending
register(tools, name, func) ==
    (name :> [suspends |-> func.coroutine, body |-> func.body]) @@ tools

NoTools == [n \in {} |-> 0]

register_code_review_tools(tools) ==
    register(tools, "detect_basic_issues", Func(FALSE, "detect_basic_issues"))

\* The registry after start-up: the code review tool of the repository and
\* the handlers a deployment plugs in, plain and coroutine functions.
Registered ==
    LET t0 == register_code_review_tools(NoTools)
        t1 == register(t0, "inc", Func(FALSE, "inc"))
        t2 == register(t1, "ainc", Func(TRUE, "inc"))
        t3 == register(t2, "push", Func(FALSE, "push"))
        t4 == register(t3, "apush", Func(TRUE, "push"))
        t5 == register(t4, "anoop", Func(TRUE, "noop"))
        t6 == register(t5, "boom", Func(FALSE, "boom"))
        t7 == register(t6, "hang", Func(FALSE, "hang"))
        t8 == register(t7, "ahang", Func(TRUE, "hang"))
        t9 == register(t8, "inc_count", Func(FALSE, "inc_count"))
        t10 == register(t9, "toggle", Func(FALSE, "toggle"))
        t11 == register(t10, "fresh", Func(FALSE, "fresh"))
        t12 == register(t11, "noop", Func(FALSE, "noop"))
    IN t12

(***************************************************************************)
(* Graphs.                                                                 *)
(***************************************************************************)
NodeDef(name, tool) == [name |-> name, tool |-> tool]

GraphDef(id, nodes, edges, start_node) ==
    [id |-> id, nodes |-> nodes, edges |-> edges, start_node |-> start_node]

\* GraphCreateRequest: nodes is a list of NodeDef, edges a list of EdgeDef
GraphCreateRequest(nodes, edges, start_node) ==
    [nodes |-> nodes, edges |-> edges, start_node |-> start_node]

\* {n.name: n for n in req.nodes}: of two nodes with one name the later one
\* is kept
nodes_dict(req) ==
    [name \in {req.nodes[i].name : i \in DOMAIN req.nodes} |->
       req.nodes[CHOOSE i \in DOMAIN req.nodes :
                    /\ req.nodes[i].name = name
                    /\ \A j \in DOMAIN req.nodes :
                          req.nodes[j].name = name => j <= i]]

\* The graph definitions clients send to create_graph, by the name the
\* model knows each one by.
GraphRequests ==
    [g \in {"counter", "pipeline", "broken", "forever", "hang", "ahang",
             "count", "toggle", "replace", "optional", "nostart",
             "grow"} |->
       CASE g = "counter" ->
              GraphCreateRequest(<<NodeDef("start", "ainc")>>,
                       <<EdgeDef("start", "start", "x", "lt", IntV(3))>>,
                       "start")
         [] g = "pipeline" ->
              GraphCreateRequest(<<NodeDef("A", "apush"),
                                   NodeDef("B", "detect_basic_issues"),
                                   NodeDef("C", "push")>>,
                       <<EdgeDef("A", "B", "x", "gte", IntV(0)),
                         Edge("A", "C"),
                         EdgeDef("A", "A", "x", "eq", IntV(0)),
                         EdgeDef("B", "C", "issue_count", "gte", IntV(1))>>,
                       "A")
         [] g = "broken" ->
              GraphCreateRequest(<<NodeDef("A", "inc"),
                                   NodeDef("B", "unregistered"),
                                   NodeDef("C", "boom")>>,
                       <<EdgeDef("A", "B", "x", "eq", IntV(1)),
                         EdgeDef("A", "Z", "x", "eq", IntV(2)),
                         EdgeDef("A", "C", "x", "eq", IntV(0))>>,
                       "A")
         [] g = "forever" ->
              GraphCreateRequest(<<NodeDef("A", "anoop")>>, <<Edge("A", "A")>>,
                                 "A")
         [] g = "hang" ->
              GraphCreateRequest(<<NodeDef("A", "hang")>>, <<>>, "A")
         [] g = "ahang" ->
              GraphCreateRequest(<<NodeDef("A", "ahang")>>, <<>>, "A")
         [] g = "count" ->
              GraphCreateRequest(<<NodeDef("start", "inc_count")>>,
                       <<EdgeDef("start", "start", "count", "lt", IntV(3))>>,
                       "start")
         [] g = "toggle" ->
              GraphCreateRequest(<<NodeDef("A", "toggle"), NodeDef("B", "noop")>>,
                       <<EdgeDef("A", "B", "x", "eq", BoolV(FALSE)),
                         Edge("B", "A")>>,
                       "A")
         [] g = "replace" ->
              GraphCreateRequest(<<NodeDef("A", "fresh"), NodeDef("B", "noop")>>,
                       <<Edge("A", "B")>>,
                       "A")
         [] g = "optional" ->
              GraphCreateRequest(<<NodeDef("A", "noop"), NodeDef("B", "noop"),
                                   NodeDef("C", "noop")>>,
                       <<EdgeDef("A", "A", "code", "eq", IntV(1)),
                         EdgeDef("A", "A", "code", "ne", NoneV),
                         EdgeDef("A", "B", "code", "eq", NoneV),
                         EdgeDef("B", "C", "code", "ne", IntV(1))>>,
                       "A")
         [] g = "nostart" ->
              GraphCreateRequest(<<NodeDef("A", "noop"), NodeDef("A", "inc")>>,
                       <<Edge("A", "B")>>,
                       "B")
         [] g = "grow" ->
              GraphCreateRequest(<<NodeDef("A", "push")>>,
                       <<EdgeDef("A", "A", "issues", "eq", ItemsV(<<0>>))>>,
                       "A")]

\* The initial_state mappings of the requests, each with the list objects
\* its JSON body creates.
StateFull ==
    [state |-> [EmptyState EXCEPT !["x"] = IntV(0), !["code"] = StrV(1),
                                  !["issues"] = ListV(1)],
     heap |-> << <<>> >>]

StateNeg ==
    [state |-> [EmptyState EXCEPT !["x"] = IntV(0 - 1), !["issues"] = ListV(1)],
     heap |-> << <<>> >>]

StateNoX ==
    [state |-> [EmptyState EXCEPT !["issues"] = ListV(1)], heap |-> << <<>> >>]

StateOne == [state |-> [EmptyState EXCEPT !["x"] = IntV(1)], heap |-> <<>>]

StateCount == [state |-> [EmptyState EXCEPT !["count"] = IntV(0)], heap |-> <<>>]

StateTrue == [state |-> [EmptyState EXCEPT !["x"] = BoolV(TRUE)], heap |-> <<>>]

GraphRunRequest(graph_id, init) == [graph_id |-> graph_id, initial_state |-> init]

\* The run requests that are made.
Requests ==
    { GraphRunRequest("counter", StateOne),
      GraphRunRequest("pipeline", StateFull),
      GraphRunRequest("pipeline", StateNeg),
      GraphRunRequest("pipeline", StateNoX),
      GraphRunRequest("pipeline", StateOne),
      GraphRunRequest("broken", StateFull),
      GraphRunRequest("broken", StateNeg),
      GraphRunRequest("broken", StateNoX),
      GraphRunRequest("broken", StateOne),
      GraphRunRequest("forever", StateOne),
      GraphRunRequest("hang", StateOne),
      GraphRunRequest("ahang", StateOne) }

(***************************************************************************)
(* The program state.                                                      *)
(*   RUNS   the run store; run ids are 1, 2, ... in order of creation      *)
(*   heap   per run, the list objects its state mapping refers to          *)
(*   task   per run, the execute_graph coroutine: its position pc and its  *)
(*          local variable node_name                                       *)
(*   loop   the run whose coroutine the event loop is executing between    *)
(*          two steps (0: none); a coroutine keeps the event loop until it *)
(*          suspends or ends                                               *)
(*   ws     the websocket handler: position, run_id, last_index, the slice *)
(*          new_entries (entries pos+1 .. slice_end are still to be sent)  *)
(*          and the messages sent so far                                   *)
(*   requests  the request each run was created from (history)             *)
(*   GRAPHS  the graph store, by graph id                                  *)
(*   tool_registry  the _tools mapping of the registry, by tool name       *)
(*   responses  the responses of create_graph and run_graph_async, in the  *)
(*          order they were returned                                       *)
(***************************************************************************)
VARIABLES RUNS, heap, task, loop, ws, requests, GRAPHS, tool_registry,
          responses

vars == <<RUNS, heap, task, loop, ws, requests, GRAPHS, tool_registry,
          responses>>

\* what no engine step changes
admin == <<GRAPHS, tool_registry>>

RunStatus == {"PENDING", "RUNNING", "COMPLETED", "FAILED"}

Terminal(status) == status \in {"COMPLETED", "FAILED"}

\* Run(...): the record run_graph_async constructs
Run(id, graph_id, state) ==
    [id |-> id, graph_id |-> graph_id, status |-> "PENDING",
     current_node |-> Null, state |-> state, log |-> <<>>, error |-> Null]

\* dict.copy(): a new mapping with the same values; a list value is copied
\* as the reference it is
DictCopy(state) == [k \in DOMAIN state |-> state[k]]

RunLogEntry(node, state_snapshot) ==
    [node |-> node, state_snapshot |-> state_snapshot]

RunIds == 1..Len(RUNS)

\* GraphDef(id=graph_id, nodes=nodes_dict, edges=req.edges, ...)
Stored(graph_id, req) ==
    GraphDef(graph_id, nodes_dict(req), req.edges, req.start_node)

NoGraphs == [g \in {} |-> 0]

\* the store once create_graph has stored the graph definitions `ids`
Created(ids) == [g \in ids |-> Stored(g, GraphRequests[g])]

\* The server after start-up: empty stores, the start-up registrations made.
Init ==
    /\ RUNS = <<>>
    /\ heap = <<>>
    /\ task = <<>>
    /\ loop = 0
    /\ ws = [pc |-> "idle", run_id |-> 0, last_index |-> 0, pos |-> 0,
             slice_end |-> 0, sent |-> <<>>]
    /\ requests = <<>>
    /\ GRAPHS = NoGraphs
    /\ tool_registry = Registered
    /\ responses = <<>>

\* The graphs the runs of Requests are made on.
Deployed == {"counter", "pipeline", "broken", "forever", "hang", "ahang"}

\* The server once the graphs of Deployed have been created, before any run.
Serving ==
    /\ RUNS = <<>>
    /\ heap = <<>>
    /\ task = <<>>
    /\ loop = 0
    /\ ws = [pc |-> "idle", run_id |-> 0, last_index |-> 0, pos |-> 0,
             slice_end |-> 0, sent |-> <<>>]
    /\ requests = <<>>
    /\ GRAPHS = Created(Deployed)
    /\ tool_registry = Registered
    /\ responses = <<>>

\* Mutant of GraphRunStartResponse: the response is built once the engine
\* has begun the run.
GraphRunStartResponseBegun(run) ==
    [kind |-> "run", id |-> run.id, status |-> "RUNNING"]

\* GraphRunStartResponse(run_id=run_id, status=run.status)
GraphRunStartResponse(run) ==
    [kind |-> "run", id |-> run.id, status |-> run.status]

\* the responses of run_graph_async
RunResponses == SelectSeq(responses, LAMBDA m : m.kind = "run")

\* the coroutine's local variable `tool` when no call is in flight
NoTool == [suspends |-> FALSE, body |-> Null]

(***************************************************************************)
(* create_graph.                                                           *)
(***************************************************************************)
GraphCreateResponse(graph_id) ==
    [kind |-> "graph", id |-> graph_id, status |-> "200"]

\* HTTPException(status_code=400, ...), with the definition it answers
BadRequest(g) == [kind |-> "invalid", id |-> g, status |-> "400"]

\* the responses of create_graph
GraphResponses == SelectSeq(responses, LAMBDA m : m.kind # "run")

\* Mutant of ValidStart: start_node is not validated.
ValidStartUnchecked(req) == req.start_node = req.start_node

\* req.start_node in nodes_dict
ValidStart(req) == req.start_node \in DOMAIN nodes_dict(req)

\* create_graph for the definition known as g.  str(uuid.uuid4()) is an id
\* that no stored graph has: the model takes g for it, and a definition is
\* sent once.
create_graph(g) ==
    /\ loop = 0
    /\ Len(GraphResponses) < MaxGraphs
    /\ \A i \in DOMAIN GraphResponses : GraphResponses[i].id # g
    /\ IF ValidStart(GraphRequests[g])
       THEN /\ GRAPHS' = (g :> Stored(g, GraphRequests[g])) @@ GRAPHS
            /\ responses' = Append(responses, GraphCreateResponse(g))
       ELSE /\ responses' = Append(responses, BadRequest(g))
            /\ UNCHANGED GRAPHS
    /\ UNCHANGED <<RUNS, heap, task, loop, ws, requests, tool_registry>>

(***************************************************************************)
(* run_graph_async: creates the run, stores it and schedules execute_graph *)
(* as a background task, which starts after the response has been sent.    *)
(***************************************************************************)
run_graph_async(req) ==
    /\ loop = 0
    /\ Len(RUNS) < MaxRuns
    /\ req.graph_id \in DOMAIN GRAPHS
    /\ LET run == Run(Len(RUNS) + 1, req.graph_id,
                      DictCopy(req.initial_state.state))
       IN /\ RUNS' = Append(RUNS, run)
          /\ responses' = Append(responses, GraphRunStartResponse(run))
    /\ heap' = Append(heap, req.initial_state.heap)
    /\ task' = Append(task, [pc |-> "scheduled", node_name |-> Null,
                             tool |-> NoTool])
    /\ requests' = Append(requests, req)
    /\ UNCHANGED <<loop, ws, admin>>

(***************************************************************************)
(* execute_graph.                                                          *)
(***************************************************************************)

\* Mutant of Failed: the except clause also clears current_node.
FailedClearsNode(run, error) ==
    [run EXCEPT !.status = "FAILED", !.error = error, !.current_node = Null]

\* the except clause: status and error are set, nothing else
Failed(run, error) == [run EXCEPT !.status = "FAILED", !.error = error]

\* Mutant of Completed: current_node is not cleared.
CompletedKeepsNode(run) == [run EXCEPT !.status = "COMPLETED"]

\* loop exit: current_node is cleared and the run is COMPLETED
Completed(run) == [run EXCEPT !.current_node = Null, !.status = "COMPLETED"]

\* What a step of the coroutine leaves: the run, its heap, and the
\* coroutine's position and local node_name.
Step(run, hp, pc, node_name) ==
    [run |-> run, heap |-> hp, pc |-> pc, node_name |-> node_name]

\* Mutant of Except: the try/except sits inside the while loop, so the run
\* is marked FAILED and the loop goes on with the same node.
ExceptInsideLoop(run, hp, node_name, error) ==
    Step(Failed(run, error), hp, "visit", node_name)

\* An exception reaches the except clause: the run is FAILED and
\* execute_graph ends.
Except(run, hp, node_name, error) ==
    Step(Failed(run, error), hp, "done", node_name)

\* Mutant of ToolRaised: the log entry of the visit is appended before the
\* tool is awaited, so the failing visit is logged too.
ToolRaisedLogged(run, res) ==
    [run EXCEPT !.state = res.state,
                !.log = Append(@, RunLogEntry(run.current_node,
                                              DictCopy(res.state)))]

\* The run as a raising tool leaves it: run.state is not assigned, the
\* mapping has whatever the tool did to it in place, nothing is logged.
ToolRaised(run, res) == [run EXCEPT !.state = res.state]

\* Mutant of ToolReturned: the returned mapping is merged into run.state,
\* so keys it does not contain are kept.
ToolReturnedMerged(run, node_name, res) ==
    LET r1 == [run EXCEPT !.state = [k \in Keys |->
                                       IF res.state[k] = Absent
                                       THEN run.state[k] ELSE res.state[k]]]
    IN [r1 EXCEPT !.log = Append(@, RunLogEntry(node_name, DictCopy(r1.state)))]

\* run.state = await tool(run.state); run.log.append(RunLogEntry(...))
ToolReturned(run, node_name, res) ==
    LET r1 == [run EXCEPT !.state = res.state]
    IN [r1 EXCEPT !.log = Append(@, RunLogEntry(node_name, DictCopy(r1.state)))]

\* Mutant of AfterTool: an undefined comparison counts as no match, and the
\* run ends COMPLETED.
AfterToolNoMatchOnRaise(graph, run, node_name, res) ==
    IF res.outcome = "raise"
    THEN Except(ToolRaised(run, res), res.heap, node_name, "tool raised")
    ELSE LET r2 == ToolReturned(run, node_name, res)
             nn == _next_node_name(graph, node_name, View(r2.state, res.heap))
         IN IF nn.raised \/ nn.next = Null
            THEN Step(Completed(r2), res.heap, "done", Null)
            ELSE Step(r2, res.heap, "visit", nn.next)

\* The loop body after the tool has returned or raised, up to the next
\* tool call or the end of execute_graph.  `res` is the tool's outcome.
AfterTool(graph, run, node_name, res) ==
    IF res.outcome = "raise"
    THEN Except(ToolRaised(run, res), res.heap, node_name, "tool raised")
    ELSE LET r2 == ToolReturned(run, node_name, res)
             nn == _next_node_name(graph, node_name, View(r2.state, res.heap))
         IN IF nn.raised
            THEN Except(r2, res.heap, node_name, "TypeError")
            ELSE IF nn.next = Null
                 THEN Step(Completed(r2), res.heap, "done", Null)
                 ELSE Step(r2, res.heap, "visit", nn.next)

\* Mutant of Lookup: a node that is not in the graph is visited with a
\* handler that returns the state as it is.
LookupMissingAsNoop(graph, node_name) ==
    IF node_name \notin DOMAIN graph.nodes
    THEN [error |-> Null, tool |-> [suspends |-> FALSE, body |-> "noop"]]
    ELSE IF graph.nodes[node_name].tool \notin DOMAIN tool_registry
    THEN [error |-> "Tool is not registered", tool |-> NoTool]
    ELSE [error |-> Null, tool |-> tool_registry[graph.nodes[node_name].tool]]

\* Mutant of Lookup: the handlers are resolved once, from the registry as
\* it was at start-up.
LookupAtStartup(graph, node_name) ==
    IF node_name \notin DOMAIN graph.nodes
    THEN [error |-> "KeyError", tool |-> NoTool]
    ELSE IF graph.nodes[node_name].tool \notin DOMAIN Registered
    THEN [error |-> "Tool is not registered", tool |-> NoTool]
    ELSE [error |-> Null, tool |-> Registered[graph.nodes[node_name].tool]]

\* graph.nodes[node_name] and tool_registry.get(node.tool): the handler, or
\* the error of the lookup that raises KeyError
Lookup(graph, node_name) ==
    IF node_name \notin DOMAIN graph.nodes
    THEN [error |-> "KeyError", tool |-> NoTool]
    ELSE IF graph.nodes[node_name].tool \notin DOMAIN tool_registry
    THEN [error |-> "Tool is not registered",
          tool |-> NoTool]
    ELSE [error |-> Null, tool |-> tool_registry[graph.nodes[node_name].tool]]

\* Mutant of Store: a failure is recorded on every run that is RUNNING.
StoreFailsAll(r, a) ==
    /\ RUNS' = [q \in DOMAIN RUNS |->
                 IF q = r THEN a.run
                 ELSE IF a.run.status = "FAILED" /\ RUNS[q].status = "RUNNING"
                      THEN Failed(RUNS[q], a.run.error)
                      ELSE RUNS[q]]
    /\ heap' = [heap EXCEPT ![r] = a.heap]
    /\ task' = [task EXCEPT ![r] = [pc |-> a.pc, node_name |-> a.node_name,
                                    tool |-> NoTool]]
    /\ loop' = IF a.pc = "done" THEN 0 ELSE r

\* The result `a` of AfterTool is stored; the coroutine keeps the event
\* loop while it goes on to the next visit and releases it when it ends.
Store(r, a) ==
    /\ RUNS' = [RUNS EXCEPT ![r] = a.run]
    /\ heap' = [heap EXCEPT ![r] = a.heap]
    /\ task' = [task EXCEPT ![r] = [pc |-> a.pc, node_name |-> a.node_name,
                                    tool |-> NoTool]]
    /\ loop' = IF a.pc = "done" THEN 0 ELSE r

\* The background task starts: status RUNNING, node_name = start_node.
Begin(r) ==
    /\ r \in RunIds
    /\ loop = 0
    /\ task[r].pc = "scheduled"
    /\ RUNS' = [RUNS EXCEPT ![r].status = "RUNNING"]
    /\ task' = [task EXCEPT ![r] = [pc |-> "visit",
                   node_name |-> GRAPHS[RUNS[r].graph_id].start_node,
                   tool |-> NoTool]]
    /\ loop' = r
    /\ UNCHANGED <<heap, ws, requests, admin, responses>>

\* One pass of the while loop up to the tool call: current_node is set, the
\* node and its tool are looked up, and the tool is called.  A plain
\* function runs to its end inside the call; a coroutine function suspends.
Visit(r) ==
    /\ r \in RunIds
    /\ loop = r
    /\ task[r].pc = "visit"
    /\ LET graph == GRAPHS[RUNS[r].graph_id]
           node_name == task[r].node_name
           run == [RUNS[r] EXCEPT !.current_node = node_name]
           found == Lookup(graph, node_name)
           res == Body(found.tool.body, run.state, heap[r])
       IN IF found.error # Null
          THEN Store(r, Except(run, heap[r], node_name, found.error))
          ELSE IF found.tool.suspends
          THEN /\ RUNS' = [RUNS EXCEPT ![r] = run]
               /\ task' = [task EXCEPT ![r].pc = "awaiting",
                                       ![r].tool = found.tool]
               /\ loop' = 0
               /\ UNCHANGED heap
          ELSE IF res.outcome = "hang"
          THEN /\ RUNS' = [RUNS EXCEPT ![r] = run]
               /\ task' = [task EXCEPT ![r].pc = "blocked"]
               /\ UNCHANGED <<heap, loop>>
          ELSE /\ Len(run.log) < MaxVisits
               /\ Store(r, AfterTool(graph, run, node_name, res))
    /\ UNCHANGED <<ws, requests, admin, responses>>

\* A suspended tool call finishes and the loop body continues.
Resume(r) ==
    /\ r \in RunIds
    /\ loop = 0
    /\ task[r].pc = "awaiting"
    /\ Len(RUNS[r].log) < MaxVisits
    /\ LET graph == GRAPHS[RUNS[r].graph_id]
           node_name == task[r].node_name
           tool == task[r].tool
           res == Body(tool.body, RUNS[r].state, heap[r])
       IN /\ res.outcome # "hang"
          /\ Store(r, AfterTool(graph, RUNS[r], node_name, res))
    /\ UNCHANGED <<ws, requests, admin, responses>>


(***************************************************************************)
(* websocket_run_logs.  Every send_json and the sleep are suspension       *)
(* points; what lies between two of them is one step.                      *)
(***************************************************************************)

\* the message of one log entry; index is its position in run.log, kept to
\* tell entries apart
EntryMsg(run, index) ==
    [kind |-> "entry", index |-> index, node |-> run.log[index].node,
     state_snapshot |-> run.log[index].state_snapshot, status |-> run.status]

DoneMsg(run) ==
    [kind |-> "done", index |-> 0, node |-> Null,
     state_snapshot |-> EmptyState, status |-> run.status]

ErrorMsg ==
    [kind |-> "error", index |-> 0, node |-> Null,
     state_snapshot |-> EmptyState, status |-> Null]

\* the end of a pass of the while loop, from the test of run.status on:
\* the done message and the close, or the sleep
CloseOrSleep(w, run) ==
    IF Terminal(run.status) /\ Len(run.log) = w.last_index
    THEN [w EXCEPT !.pc = "closed", !.sent = Append(@, DoneMsg(run))]
    ELSE [w EXCEPT !.pc = "sleeping"]

\* a pass of the while loop from its top to the first suspension
Poll(w, run) ==
    IF Len(run.log) > w.last_index
    THEN [w EXCEPT !.pc = "sending",
                   !.pos = w.last_index + 1,
                   !.slice_end = Len(run.log),
                   !.sent = Append(@, EntryMsg(run, w.last_index + 1))]
    ELSE CloseOrSleep(w, run)

\* the index the loop continues from once the slice has been sent
NextIndex(w, run) == Len(run.log)

\* The connection is accepted; an unknown run id is answered with an error
\* message, otherwise last_index = 0 and the loop is entered.
Connect(run_id) ==
    /\ loop = 0
    /\ ws.pc = "idle"
    /\ ws' = IF run_id \notin RunIds
             THEN [ws EXCEPT !.pc = "closed", !.run_id = run_id,
                             !.sent = Append(@, ErrorMsg)]
             ELSE Poll([ws EXCEPT !.run_id = run_id, !.last_index = 0],
                       RUNS[run_id])
    /\ UNCHANGED <<RUNS, heap, task, loop, requests, admin, responses>>

\* A send_json of a log entry has finished: the next entry of the slice is
\* sent, or after the last one last_index is set and the pass ends.
Sent ==
    /\ loop = 0
    /\ ws.pc = "sending"
    /\ LET run == RUNS[ws.run_id]
       IN ws' = IF ws.pos < ws.slice_end
                THEN [ws EXCEPT !.pos = ws.pos + 1,
                                !.sent = Append(@, EntryMsg(run, ws.pos + 1))]
                ELSE CloseOrSleep([ws EXCEPT !.last_index = NextIndex(ws, run)],
                                  run)
    /\ UNCHANGED <<RUNS, heap, task, loop, requests, admin, responses>>

\* The sleep is over: the next pass of the loop.
Wake ==
    /\ loop = 0
    /\ ws.pc = "sleeping"
    /\ ws' = Poll(ws, RUNS[ws.run_id])
    /\ UNCHANGED <<RUNS, heap, task, loop, requests, admin, responses>>

\* The client has gone: the send raises WebSocketDisconnect and the handler
\* returns.
Disconnect ==
    /\ loop = 0
    /\ ws.pc = "sending"
    /\ ws' = [ws EXCEPT !.pc = "disconnected"]
    /\ UNCHANGED <<RUNS, heap, task, loop, requests, admin, responses>>

\* The run ids a client subscribes to: the id of the first run, before or
\* after that run has been created.
Watched == {1}

Next ==
    \/ \E req \in Requests : run_graph_async(req)
    \/ \E r \in RunIds : Begin(r)
    \/ \E r \in RunIds : Visit(r)
    \/ \E r \in RunIds : Resume(r)
    \/ \E run_id \in Watched : Connect(run_id)
    \/ Sent
    \/ Wake
    \/ Disconnect

Spec == Serving /\ [][Next]_vars

\* The event loop runs every task that is ready: a scheduled background
\* task starts, a coroutine that holds the event loop goes on, a tool call
\* that finishes is resumed, a send that finishes and a sleep that is over
\* are resumed.  Requests, connections and disconnections are up to the
\* clients.
FairSpec ==
    /\ Spec
    /\ \A r \in 1..MaxRuns :
          WF_vars(Begin(r)) /\ WF_vars(Visit(r)) /\ WF_vars(Resume(r))
    /\ WF_vars(Sent)
    /\ WF_vars(Wake)

\* The graph definitions sent to a server that starts with an empty store,
\* and the runs requested on them.
Offered ==
    {"count", "toggle", "replace", "optional", "broken", "nostart", "grow"}

RequestsOnOffered ==
    { GraphRunRequest("count", StateCount),
      GraphRunRequest("toggle", StateTrue),
      GraphRunRequest("replace", StateFull),
      GraphRunRequest("optional", StateOne),
      GraphRunRequest("broken", StateOne),
      GraphRunRequest("broken", StateNeg),
      GraphRunRequest("nostart", StateOne),
      GraphRunRequest("grow", StateNoX) }

NextCreate ==
    \/ \E g \in Offered : create_graph(g)
    \/ \E req \in RequestsOnOffered : run_graph_async(req)
    \/ \E r \in RunIds : Begin(r)
    \/ \E r \in RunIds : Visit(r)

SpecCreate == Init /\ [][NextCreate]_vars

(***************************************************************************)
(* Registrations after start-up.                                           *)
(***************************************************************************)

\* tool_registry.register(name, func), called between two steps of the
\* tasks on the event loop.
Register(name, func) ==
    /\ loop = 0
    /\ tool_registry' = register(tool_registry, name, func)
    /\ tool_registry' # tool_registry
    /\ UNCHANGED <<RUNS, heap, task, loop, ws, requests, GRAPHS, responses>>

\* The registrations made while the server runs: the name ainc is bound to
\* other handlers, plain and coroutine functions, and to the first one
\* again.
Registrations ==
    { <<"ainc", Func(TRUE, "noop")>>,
      <<"ainc", Func(TRUE, "inc")>>,
      <<"ainc", Func(FALSE, "inc")>> }

RequestsRegister ==
    { GraphRunRequest("counter", StateOne) }

NextRegister ==
    \/ \E reg \in Registrations : Register(reg[1], reg[2])
    \/ \E req \in RequestsRegister : run_graph_async(req)
    \/ \E r \in RunIds : Begin(r)
    \/ \E r \in RunIds : Visit(r)
    \/ \E r \in RunIds : Resume(r)

SpecRegister == Serving /\ [][NextRegister]_vars

TypeOK ==
    /\ Len(RUNS) <= MaxRuns
    /\ Len(heap) = Len(RUNS) /\ Len(task) = Len(RUNS)
    /\ Len(requests) = Len(RUNS)
    /\ \A r \in RunIds :
         /\ RUNS[r].status \in RunStatus
         /\ Len(RUNS[r].log) <= MaxVisits
         /\ task[r].pc \in {"scheduled", "visit", "awaiting", "blocked", "done"}
    /\ loop \in 0..MaxRuns
    /\ ws.pc \in {"idle", "sending", "sleeping", "closed", "disconnected"}
    /\ DOMAIN GRAPHS \subseteq DOMAIN GraphRequests
    /\ DOMAIN Registered \subseteq DOMAIN tool_registry
    /\ Len(RunResponses) = Len(RUNS)


(***************************************************************************)
(* Properties.                                                             *)
(***************************************************************************)
GraphOf(r) == GRAPHS[RUNS[r].graph_id]

LastEntry(run) == run.log[Len(run.log)]

\* a step in which run r finishes a node visit: its log grows by one entry
VisitCompleted(r) == Len(RUNS'[r].log) = Len(RUNS[r].log) + 1

\* C1: a run's status moves only PENDING -> RUNNING -> COMPLETED or FAILED,
\* a new run starts PENDING, and once the status is COMPLETED or FAILED no
\* field of the run (nor any list its state refers to) changes again, so a
\* terminal status is entered exactly once.
C1_Lifecycle ==
    [][/\ \A r \in RunIds :
            /\ RUNS'[r].status # RUNS[r].status =>
                  <<RUNS[r].status, RUNS'[r].status>> \in
                     {<<"PENDING", "RUNNING">>, <<"RUNNING", "COMPLETED">>,
                      <<"RUNNING", "FAILED">>}
            /\ Terminal(RUNS[r].status) =>
                  /\ RUNS'[r] = RUNS[r]
                  /\ heap'[r] = heap[r]
       /\ \A r \in (1..Len(RUNS')) \ RunIds : RUNS'[r].status = "PENDING"
      ]_vars

\* a run has FAILED after completed visits and stays as it is while
\* another run, started after it, has COMPLETED
C1_Witness ==
    \E r, q \in RunIds :
       /\ r < q
       /\ RUNS[r].status = "FAILED" /\ Len(RUNS[r].log) > 0
       /\ RUNS[q].status = "COMPLETED" /\ Len(RUNS[q].log) > 1

\* no edge from `node` matches `state`: each of them is conditional and its
\* comparison is defined and false
NoEdgeMatches(graph, node, state) ==
    \A i \in DOMAIN graph.edges :
       LET e == graph.edges[i]
       IN e.from_node = node =>
            /\ e.condition_key # Null
            /\ ~_compare(Get(state, e.condition_key), e.operator, e.value).raised
            /\ ~_compare(Get(state, e.condition_key), e.operator, e.value).result

\* C2: when a node's tool has run and no outgoing edge of the node matches
\* the updated state, that same step leaves the run COMPLETED with
\* current_node null and execute_graph ended; and a run whose execute_graph
\* has ended visits no further node (its log and current_node stay).
C2_TerminatesOnNoMatch ==
    [][\A r \in RunIds :
         /\ (VisitCompleted(r)
             /\ NoEdgeMatches(GraphOf(r), LastEntry(RUNS'[r]).node,
                              RUNS'[r].state))
            => /\ RUNS'[r].status = "COMPLETED"
               /\ RUNS'[r].current_node = Null
               /\ task'[r].pc = "done"
         /\ task[r].pc = "done"
            => /\ RUNS'[r].log = RUNS[r].log
               /\ RUNS'[r].current_node = RUNS[r].current_node
               /\ task'[r].pc = "done"
      ]_vars

\* a run has COMPLETED after several visits at a node that has outgoing
\* edges, none of which matched
C2_Witness ==
    \E r \in RunIds :
       /\ RUNS[r].status = "COMPLETED"
       /\ Len(RUNS[r].log) >= 2
       /\ Candidates(GraphOf(r), LastEntry(RUNS[r]).node) # <<>>

\* edge i of the graph leaves `node` and is unconditional or its condition
\* holds on `state`
EdgeMatches(graph, i, node, state) ==
    LET e == graph.edges[i]
    IN /\ e.from_node = node
       /\ \/ e.condition_key = Null
          \/ LET c == _compare(Get(state, e.condition_key), e.operator, e.value)
             IN ~c.raised /\ c.result

\* edge i of the graph leaves `node` and its comparison is undefined
EdgeRaises(graph, i, node, state) ==
    LET e == graph.edges[i]
    IN /\ e.from_node = node
       /\ e.condition_key # Null
       /\ _compare(Get(state, e.condition_key), e.operator, e.value).raised

\* C3: after every node visit the node visited next is the to_node of the
\* first-declared edge that leaves the visited node and is unconditional or
\* whose condition holds on the state (provided no edge declared before it
\* has an undefined comparison, which fails the run): of two matching
\* edges the earlier one is taken, an unconditional edge beats every edge
\* declared after it.
C3_FirstMatchWins ==
    [][\A r \in RunIds :
         VisitCompleted(r) =>
            LET graph == GraphOf(r)
                node == LastEntry(RUNS'[r]).node
                state == RUNS'[r].state
            IN \A i \in DOMAIN graph.edges :
                  (/\ EdgeMatches(graph, i, node, state)
                   /\ \A j \in 1..(i - 1) :
                         /\ ~EdgeMatches(graph, j, node, state)
                         /\ ~EdgeRaises(graph, j, node, state))
                  => /\ task'[r].pc = "visit"
                     /\ task'[r].node_name = graph.edges[i].to_node
      ]_vars

\* a visit after which three edges from the node matched (a conditional
\* one, then an unconditional one, then another conditional one) and the
\* run went on to the first one's to_node
C3_Witness ==
    \E r \in RunIds :
       /\ RUNS[r].log # <<>>
       /\ task[r].pc = "visit"
       /\ Len(RUNS[r].log) < MaxVisits
       /\ LET graph == GraphOf(r)
              node == LastEntry(RUNS[r]).node
          IN /\ Cardinality({i \in DOMAIN graph.edges :
                     EdgeMatches(graph, i, node, RUNS[r].state)}) >= 3
             /\ \E i \in DOMAIN graph.edges :
                   /\ EdgeMatches(graph, i, node, RUNS[r].state)
                   /\ graph.edges[i].condition_key # Null
                   /\ task[r].node_name = graph.edges[i].to_node


\* what a state_snapshot holds when it is read: every value, and for a list
\* value the items of the list object it refers to
Contents(state_snapshot, hp) ==
    [k \in DOMAIN state_snapshot |->
       [value |-> state_snapshot[k],
        items |-> IF state_snapshot[k].t = "list"
                  THEN hp[state_snapshot[k].v] ELSE <<>>]]

\* C4: what the state_snapshot of a log entry holds never changes once the
\* entry has been appended, whatever later tools do to the state mapping
\* or to values nested inside it.
C4_SnapshotsFrozen ==
    [][\A r \in RunIds : \A i \in 1..Len(RUNS[r].log) :
          Contents(RUNS'[r].log[i].state_snapshot, heap'[r])
             = Contents(RUNS[r].log[i].state_snapshot, heap[r])
      ]_vars

\* the same for the top level of the mapping alone: the keys of a logged
\* snapshot and the values (or list references) they map to never change
C4_TopLevelFrozen ==
    [][\A r \in RunIds : \A i \in 1..Len(RUNS[r].log) :
          RUNS'[r].log[i] = RUNS[r].log[i]
      ]_vars

\* a log entry's snapshot and the current state differ at the top level
\* after a later tool assigned keys of the mapping in place
C4_Witness ==
    \E r \in RunIds :
       /\ Len(RUNS[r].log) >= 2
       /\ RUNS[r].log[1].state_snapshot # RUNS[r].state

\* the log indices of the entry messages sent, in the order sent
RECURSIVE SentIndices(_)
SentIndices(sent) ==
    IF sent = <<>> THEN <<>>
    ELSE IF Head(sent).kind = "entry"
    THEN <<Head(sent).index>> \o SentIndices(Tail(sent))
    ELSE SentIndices(Tail(sent))

DoneSent == \E i \in DOMAIN ws.sent : ws.sent[i].kind = "done"

\* C5: when the observer of an existing run has sent the done message, it
\* has sent every entry of the run's log exactly once, in log order.
C5_EveryEntryStreamed ==
    DoneSent =>
       SentIndices(ws.sent) = [i \in 1..Len(RUNS[ws.run_id].log) |-> i]

\* the entries that are sent are sent once each and in log order
C5_SentInOrder ==
    LET idx == SentIndices(ws.sent)
    IN \A i, j \in DOMAIN idx : i < j => idx[i] < idx[j]

\* the done message has been sent after the entries of a log of several
\* entries, while the engine appended entries between the observer's sends
C5_Witness ==
    /\ DoneSent
    /\ Len(SentIndices(ws.sent)) >= 2
    /\ \E i \in DOMAIN ws.sent :
          ws.sent[i].kind = "entry" /\ ws.sent[i].status = "RUNNING"


\* run r is at a tool call that raises: about to call a plain function, or
\* suspended in a coroutine function, whose body raises on the run's state
AtRaisingTool(r) ==
    \/ /\ task[r].pc = "visit"
       /\ loop = r
       /\ Lookup(GraphOf(r), task[r].node_name).error = Null
       /\ ~Lookup(GraphOf(r), task[r].node_name).tool.suspends
       /\ Body(Lookup(GraphOf(r), task[r].node_name).tool.body,
               RUNS[r].state, heap[r]).outcome = "raise"
    \/ /\ task[r].pc = "awaiting"
       /\ Body(task[r].tool.body, RUNS[r].state, heap[r]).outcome = "raise"

\* C7: the step in which a node's tool raises leaves the run FAILED with a
\* non-null error and its log as it was: the entries of the visits
\* completed before, and none for the failing visit.
C7_ToolFailure ==
    [][\A r \in RunIds :
         (AtRaisingTool(r) /\ task'[r] # task[r])
         => /\ RUNS'[r].status = "FAILED"
            /\ RUNS'[r].error # Null
            /\ RUNS'[r].log = RUNS[r].log
            /\ task'[r].pc = "done"
      ]_vars

\* a run has FAILED at a raising tool after an earlier visit was logged
C7_Witness ==
    \E r \in RunIds :
       /\ RUNS[r].status = "FAILED"
       /\ RUNS[r].error = "tool raised"
       /\ Len(RUNS[r].log) = 1
       /\ RUNS[r].current_node # LastEntry(RUNS[r]).node

\* C8: a COMPLETED run has current_node null and error null; a FAILED run
\* has a non-null error and current_node still names the node that
\* execute_graph was at when it failed.
C8_TerminalFields ==
    \A r \in RunIds :
       /\ RUNS[r].status = "COMPLETED" =>
             RUNS[r].current_node = Null /\ RUNS[r].error = Null
       /\ RUNS[r].status = "FAILED" =>
             /\ RUNS[r].error # Null
             /\ RUNS[r].current_node # Null
             /\ RUNS[r].current_node = task[r].node_name

\* a run has COMPLETED, and a run has FAILED after a logged visit, at a
\* node other than the one it logged last
C8_Witness ==
    /\ \E r \in RunIds : RUNS[r].status = "COMPLETED"
    /\ \E r \in RunIds :
          /\ RUNS[r].status = "FAILED"
          /\ Len(RUNS[r].log) = 1
          /\ RUNS[r].current_node # LastEntry(RUNS[r]).node


\* One pass of the while loop of execute_graph with nothing else on the
\* event loop: the visit of node_name, the tool call included.
Pass(graph, run, hp, node_name) ==
    LET run1 == [run EXCEPT !.current_node = node_name]
        found == Lookup(graph, node_name)
        res == Body(found.tool.body, run1.state, hp)
    IN IF found.error # Null
       THEN Except(run1, hp, node_name, found.error)
       ELSE IF res.outcome = "hang"
       THEN Step(run1, hp, "unfinished", node_name)
       ELSE AfterTool(graph, run1, node_name, res)

\* execute_graph from the step `a` on, for at most `fuel` further visits
RECURSIVE Drive(_, _, _)
Drive(graph, a, fuel) ==
    IF a.pc # "visit" \/ fuel = 0
    THEN a
    ELSE Drive(graph, Pass(graph, a.run, a.heap, a.node_name), fuel - 1)

\* what the request of run r leads to when the run executes alone
Alone(r) ==
    LET req == requests[r]
        graph == GRAPHS[req.graph_id]
        run == Run(r, req.graph_id, DictCopy(req.initial_state.state))
    IN Drive(graph,
             Step([run EXCEPT !.status = "RUNNING"], req.initial_state.heap,
                  "visit", graph.start_node),
             MaxVisits)

\* the fields of a run
Fields(run) ==
    <<run.id, run.graph_id, run.status, run.current_node, run.state, run.log,
      run.error>>

\* C9: however the runs interleave, a run that has ended has the status,
\* state, log and error (and list contents) it has when run alone; and the
\* step in which one run fails changes no field of any other run.
C9_RunsIndependent ==
    /\ [](\A r \in RunIds :
            task[r].pc = "done" =>
               /\ Alone(r).pc = "done"
               /\ Fields(RUNS[r]) = Fields(Alone(r).run)
               /\ heap[r] = Alone(r).heap)
    /\ [][\A r \in RunIds :
            (RUNS'[r].status = "FAILED" /\ RUNS[r].status # "FAILED")
            => \A q \in RunIds \ {r} :
                  RUNS'[q] = RUNS[q] /\ heap'[q] = heap[q]
         ]_vars

\* one run has FAILED while another, suspended in a tool call after a
\* logged visit, is still RUNNING
C9_Witness ==
    \E r, q \in RunIds :
       /\ r # q
       /\ RUNS[r].status = "FAILED"
       /\ RUNS[r].log # <<>>
       /\ RUNS[q].status = "RUNNING"
       /\ task[q].pc = "awaiting"
       /\ RUNS[q].log # <<>>


\* the observer is in its polling loop on a run of the store
Observing == ws.pc \in {"sending", "sleeping"}

\* C6: the observer of an existing run sends the done message only when the
\* run is COMPLETED or FAILED, with that status, as its last message and at
\* most once, and then stops; and once the run is COMPLETED or FAILED an
\* observer whose connection stays open eventually sends it.
C6_DoneMessage ==
    /\ [](\A i \in DOMAIN ws.sent :
            ws.sent[i].kind = "done" =>
               /\ Terminal(RUNS[ws.run_id].status)
               /\ ws.sent[i].status = RUNS[ws.run_id].status
               /\ i = Len(ws.sent)
               /\ ws.pc = "closed")
    /\ (Observing /\ Terminal(RUNS[ws.run_id].status))
          ~> (DoneSent \/ ws.pc = "disconnected")

\* the part of C6 that is about what is sent
C6_DoneOnlyWhenTerminal ==
    \A i \in DOMAIN ws.sent :
       ws.sent[i].kind = "done" =>
          /\ Terminal(RUNS[ws.run_id].status)
          /\ ws.sent[i].status = RUNS[ws.run_id].status
          /\ i = Len(ws.sent)
          /\ ws.pc = "closed"

\* the event loop is held by a plain-function tool that never returns
LoopBlocked == \E r \in RunIds : task[r].pc = "blocked"

\* the liveness part of C6 for the behaviours in which no plain-function
\* tool blocks the event loop
C6_DoneUnlessBlocked ==
    (Observing /\ Terminal(RUNS[ws.run_id].status))
       ~> (DoneSent \/ ws.pc = "disconnected" \/ LoopBlocked)

\* the done message has been sent for a FAILED run after its log entries
C6_Witness ==
    /\ DoneSent
    /\ RUNS[ws.run_id].status = "FAILED"
    /\ Len(ws.sent) >= 2

\* C10: every started run that ends when it runs alone eventually is
\* COMPLETED or FAILED, whatever the other runs do (a tool that hangs, a
\* graph that loops for ever), with plain-function tools as with coroutine
\* functions.
C10_OthersProgress ==
    \A r \in 1..MaxRuns :
       (r \in RunIds /\ Alone(r).pc = "done")
          ~> (r \in RunIds /\ Terminal(RUNS[r].status))

\* the same, for the behaviours in which no plain-function tool blocks the
\* event loop: hanging coroutine tools and looping graphs of coroutine
\* tools stop no other run
C10_ProgressUnlessBlocked ==
    \A r \in 1..MaxRuns :
       (r \in RunIds /\ Alone(r).pc = "done")
          ~> ((r \in RunIds /\ Terminal(RUNS[r].status)) \/ LoopBlocked)

\* a run has ended while another run is suspended for ever in a coroutine
\* tool that hangs
C10_Witness ==
    \E r, q \in RunIds :
       /\ RUNS[q].graph_id = "ahang"
       /\ task[q].pc = "awaiting"
       /\ RUNS[r].status = "COMPLETED"
       /\ Len(RUNS[r].log) >= 2

\* C11: the step of run_graph_async that creates a run stores it PENDING,
\* schedules its task without starting it and returns the run's id with
\* status PENDING; every response of run_graph_async names a stored run
\* and says PENDING; and the engine takes a run out of PENDING only after
\* the response for it has been returned.
C11_PendingResponse ==
    /\ [](\A i \in DOMAIN RunResponses :
            /\ RunResponses[i].status = "PENDING"
            /\ RunResponses[i].id = i
            /\ i \in RunIds)
    /\ [][/\ \A r \in (1..Len(RUNS')) \ RunIds :
               /\ RUNS'[r].status = "PENDING"
               /\ RUNS'[r].log = <<>>
               /\ task'[r].pc = "scheduled"
               /\ responses' = Append(responses,
                                      [kind |-> "run", id |-> r,
                                       status |-> "PENDING"])
          /\ \A r \in RunIds :
               (RUNS[r].status = "PENDING" /\ RUNS'[r].status # "PENDING")
               => Len(RunResponses) >= r
         ]_vars

\* the response of a run said PENDING and the run has since COMPLETED after
\* several visits
C11_Witness ==
    \E r \in RunIds :
       /\ Len(RunResponses) >= r
       /\ RunResponses[r].status = "PENDING"
       /\ RUNS[r].status = "COMPLETED"
       /\ Len(RUNS[r].log) >= 2

\* the handler of the tool call that run r is at: the one awaited, or the
\* one the registry holds for the node about to be visited
Called(r) ==
    IF task[r].pc = "awaiting" THEN task[r].tool
    ELSE Lookup(GraphOf(r), task[r].node_name).tool

\* C12: in the step that completes a node visit run.state becomes exactly
\* the mapping the tool returned, and that mapping is what is logged; a
\* run on the graph "replace", whose first tool returns a new mapping
\* holding only x = 1, has state {x: 1} from its first visit on, whatever
\* other keys its initial state had.
C12_StateReplaced ==
    /\ [][\A r \in RunIds :
            VisitCompleted(r) =>
               /\ RUNS'[r].state
                     = Body(Called(r).body, RUNS[r].state, heap[r]).state
               /\ LastEntry(RUNS'[r]).state_snapshot = RUNS'[r].state
         ]_vars
    /\ [](\A r \in RunIds :
            (RUNS[r].graph_id = "replace" /\ RUNS[r].log # <<>>) =>
               RUNS[r].state = [EmptyState EXCEPT !["x"] = IntV(1)])

\* a run that started with the keys x, code and issues has COMPLETED with
\* the state {x: 1} after a tool returned a mapping without code and issues
C12_Witness ==
    \E r \in RunIds :
       /\ requests[r].initial_state.state["code"] # Absent
       /\ requests[r].initial_state.state["issues"] # Absent
       /\ RUNS[r].status = "COMPLETED"
       /\ Len(RUNS[r].log) = 2
       /\ RUNS[r].state = [EmptyState EXCEPT !["x"] = IntV(1)]

\* the nodes of a log, in order
Nodes(log) == [i \in DOMAIN log |-> log[i].node]

\* C13: a run on the graph "count" (node start increments count, edge
\* start -> start if count lt 3) from {count: 0} never fails, has count = n
\* after n visits, and with its third log entry it is COMPLETED with final
\* state {count: 3}; it never logs a fourth.
C13_CountToThree ==
    \A r \in RunIds :
       requests[r] = GraphRunRequest("count", StateCount) =>
          /\ RUNS[r].status # "FAILED"
          /\ Len(RUNS[r].log) <= 3
          /\ \A i \in DOMAIN RUNS[r].log :
                /\ RUNS[r].log[i].node = "start"
                /\ RUNS[r].log[i].state_snapshot
                      = [EmptyState EXCEPT !["count"] = IntV(i)]
          /\ Len(RUNS[r].log) = 3 =>
                /\ RUNS[r].status = "COMPLETED"
                /\ RUNS[r].state = [EmptyState EXCEPT !["count"] = IntV(3)]
          /\ RUNS[r].status = "COMPLETED" => Len(RUNS[r].log) = 3

\* the run on "count" from {count: 0} has COMPLETED
C13_Witness ==
    \E r \in RunIds :
       /\ requests[r] = GraphRunRequest("count", StateCount)
       /\ RUNS[r].status = "COMPLETED"
       /\ Nodes(RUNS[r].log) = <<"start", "start", "start">>

\* the value of x in the i-th snapshot of a log
LoggedX(log, i) == log[i].state_snapshot["x"]

\* C14: a run on the graph "toggle" (A -[x eq false]-> B, B -> A, start A,
\* A's tool negates x) from {x: true} visits A, B, A and no more: after the
\* second visit of A x is true, the edge to B does not match, and the run
\* is COMPLETED with the log A, B, A after two transitions.
C14_ToggleVisits ==
    \A r \in RunIds :
       requests[r] = GraphRunRequest("toggle", StateTrue) =>
          /\ RUNS[r].status # "FAILED"
          /\ Len(RUNS[r].log) <= 3
          /\ \A i \in DOMAIN RUNS[r].log :
                /\ RUNS[r].log[i].node = <<"A", "B", "A">>[i]
                /\ LoggedX(RUNS[r].log, i)
                      = <<BoolV(FALSE), BoolV(FALSE), BoolV(TRUE)>>[i]
          /\ Len(RUNS[r].log) = 3 => RUNS[r].status = "COMPLETED"
          /\ RUNS[r].status = "COMPLETED" => Len(RUNS[r].log) = 3

\* C14 as stated: the run that has ended visited A twice and then made a
\* third transition, to B, so its log is A, B, A, B.
C14_ThirdTransitionToB ==
    \A r \in RunIds :
       (requests[r] = GraphRunRequest("toggle", StateTrue)
          /\ Terminal(RUNS[r].status))
       => Nodes(RUNS[r].log) = <<"A", "B", "A", "B">>

\* the run on "toggle" from {x: true} has COMPLETED at A with x true
C14_Witness ==
    \E r \in RunIds :
       /\ requests[r] = GraphRunRequest("toggle", StateTrue)
       /\ RUNS[r].status = "COMPLETED"
       /\ Nodes(RUNS[r].log) = <<"A", "B", "A">>
       /\ RUNS[r].state["x"] = BoolV(TRUE)

\* the handler the registry holds for the node run r is about to visit
Bound(r) == tool_registry[GraphOf(r).nodes[task[r].node_name].tool]

\* C15: a registration changes the binding of one name and nothing else,
\* removes no name and touches no run; and every node visit calls the
\* handler that the registry holds for the node's tool name when the visit
\* begins, whatever was bound to the name at earlier visits of the run: a
\* coroutine handler is the one awaited, a plain handler's result is the
\* new run.state.
C15_ResolvedAtVisit ==
    /\ [][tool_registry' # tool_registry =>
            /\ DOMAIN tool_registry \subseteq DOMAIN tool_registry'
            /\ Cardinality({n \in DOMAIN tool_registry :
                               tool_registry'[n] # tool_registry[n]}) = 1
            /\ RUNS' = RUNS /\ task' = task /\ heap' = heap
         ]_vars
    /\ [][\A r \in RunIds :
            (/\ task[r].pc = "visit"
             /\ <<RUNS'[r], task'[r]>> # <<RUNS[r], task[r]>>
             /\ task[r].node_name \in DOMAIN GraphOf(r).nodes
             /\ GraphOf(r).nodes[task[r].node_name].tool
                   \in DOMAIN tool_registry)
            => IF Bound(r).suspends
               THEN task'[r].pc = "awaiting" /\ task'[r].tool = Bound(r)
               ELSE VisitCompleted(r) =>
                       RUNS'[r].state
                          = Body(Bound(r).body, RUNS[r].state, heap[r]).state
         ]_vars

\* a run on "counter" from {x: 1} has COMPLETED with x logged as 2, 2, 3:
\* its first visit incremented x, its second ran a handler registered in
\* between that leaves x alone, its third one registered after that
C15_Witness ==
    \E r \in RunIds :
       /\ RUNS[r].status = "COMPLETED"
       /\ Len(RUNS[r].log) = 3
       /\ LoggedX(RUNS[r].log, 1) = IntV(2)
       /\ LoggedX(RUNS[r].log, 2) = IntV(2)
       /\ LoggedX(RUNS[r].log, 3) = IntV(3)

\* the node names a graph definition supplies
SuppliedNames(g) ==
    {GraphRequests[g].nodes[i].name : i \in DOMAIN GraphRequests[g].nodes}

\* the response returned in this step by create_graph
Answer == responses'[Len(responses')]

\* C16: the step of create_graph answers with the error exactly when the
\* definition's start_node is not among its node names, and then leaves
\* the graph store as it was; otherwise it adds the graph and nothing
\* else.  Every stored graph has its start_node among its nodes, and no
\* run fails on the node lookup of its first visit.
C16_StartNodeValidated ==
    /\ [][Len(GraphResponses') > Len(GraphResponses) =>
            /\ Answer.kind = "invalid" <=>
                  GraphRequests[Answer.id].start_node
                     \notin SuppliedNames(Answer.id)
            /\ Answer.kind = "invalid" => GRAPHS' = GRAPHS
            /\ Answer.kind = "graph" =>
                  /\ DOMAIN GRAPHS' = DOMAIN GRAPHS \cup {Answer.id}
                  /\ Answer.id \notin DOMAIN GRAPHS
                  /\ \A g \in DOMAIN GRAPHS : GRAPHS'[g] = GRAPHS[g]
                  /\ GRAPHS'[Answer.id].start_node
                        = GraphRequests[Answer.id].start_node
                  /\ DOMAIN GRAPHS'[Answer.id].nodes = SuppliedNames(Answer.id)
         ]_vars
    /\ [](\A g \in DOMAIN GRAPHS :
            GRAPHS[g].start_node \in DOMAIN GRAPHS[g].nodes)
    /\ [](\A r \in RunIds :
            (RUNS[r].status = "FAILED" /\ RUNS[r].log = <<>>) =>
               RUNS[r].error # "KeyError")

\* a definition whose start_node is not one of its nodes was refused, the
\* store holds the one graph that was accepted, and a run on it has ended
C16_Witness ==
    /\ \E i \in DOMAIN GraphResponses : GraphResponses[i].kind = "invalid"
    /\ Cardinality(DOMAIN GRAPHS) = 1
    /\ \E r \in RunIds : Terminal(RUNS[r].status) /\ RUNS[r].log # <<>>

\* the edges of a graph whose to_node is not a node of the graph
Dangling(graph) ==
    {i \in DOMAIN graph.edges :
        graph.edges[i].to_node \notin DOMAIN graph.nodes}

\* the graph without its dangling edges
WithoutDangling(graph) ==
    [graph EXCEPT !.edges =
        SelectSeq(graph.edges, LAMBDA e : e.to_node \in DOMAIN graph.nodes)]

\* C17: create_graph stores a definition with a valid start_node whatever
\* its edges lead to; the step of a run at a name that is not a node of its
\* graph leaves the run FAILED with an error, current_node that name, and
\* state, log and list objects as they were; and a visit after which no
\* dangling edge is selected goes on as it does in the graph without the
\* dangling edges.
C17_DanglingEdge ==
    /\ [][Len(GraphResponses') > Len(GraphResponses) =>
            (GraphRequests[Answer.id].start_node \in SuppliedNames(Answer.id)
               => /\ Answer.kind = "graph"
                  /\ GRAPHS'[Answer.id].edges = GraphRequests[Answer.id].edges)
         ]_vars
    /\ [][\A r \in RunIds :
            (/\ task[r].pc = "visit"
             /\ <<RUNS'[r], task'[r]>> # <<RUNS[r], task[r]>>
             /\ task[r].node_name \notin DOMAIN GraphOf(r).nodes)
            => /\ RUNS'[r].status = "FAILED"
               /\ RUNS'[r].error # Null
               /\ RUNS'[r].current_node = task[r].node_name
               /\ RUNS'[r].state = RUNS[r].state
               /\ RUNS'[r].log = RUNS[r].log
               /\ heap'[r] = heap[r]
               /\ task'[r].pc = "done"
         ]_vars
    /\ [][\A r \in RunIds :
            (/\ VisitCompleted(r)
             /\ ~(task'[r].pc = "visit"
                    /\ task'[r].node_name \notin DOMAIN GraphOf(r).nodes))
            => _next_node_name(GraphOf(r), task[r].node_name,
                               View(RUNS'[r].state, heap'[r]))
                 = _next_node_name(WithoutDangling(GraphOf(r)),
                                   task[r].node_name,
                                   View(RUNS'[r].state, heap'[r]))
         ]_vars

\* on a stored graph with a dangling edge, one run has FAILED at the
\* dangling name after a logged visit, and another has passed over the
\* dangling edge and gone on to a node of the graph
C17_Witness ==
    /\ \E r \in RunIds :
          /\ Dangling(GraphOf(r)) # {}
          /\ RUNS[r].status = "FAILED"
          /\ RUNS[r].current_node \notin DOMAIN GraphOf(r).nodes
          /\ Len(RUNS[r].log) = 1
    /\ \E r \in RunIds :
          /\ Dangling(GraphOf(r)) # {}
          /\ RUNS[r].log # <<>>
          /\ RUNS[r].current_node = "C"

Ordering == {"lt", "gt", "lte", "gte"}

\* C18: when, after a node's tool has returned, the edges that leave the
\* node are tried in declared order and the first one that either matches
\* or has an undefined comparison is an ordering edge whose state value
\* (null for an absent key) and edge value are not comparable, that step
\* leaves the run FAILED with an error, execute_graph ended, current_node
\* still the node just executed, and the log grown by that node's entry:
\* no edge declared after it is taken.
C18_UnsupportedComparison ==
    [][\A r \in RunIds :
         VisitCompleted(r) =>
            \A i \in DOMAIN GraphOf(r).edges :
               (/\ EdgeRaises(GraphOf(r), i, task[r].node_name, RUNS'[r].state)
                /\ GraphOf(r).edges[i].operator \in Ordering
                /\ ~Comparable(Get(RUNS'[r].state,
                                   GraphOf(r).edges[i].condition_key),
                               GraphOf(r).edges[i].value)
                /\ \A j \in 1..(i - 1) :
                      /\ ~EdgeMatches(GraphOf(r), j, task[r].node_name,
                                      RUNS'[r].state)
                      /\ ~EdgeRaises(GraphOf(r), j, task[r].node_name,
                                     RUNS'[r].state))
               => /\ RUNS'[r].status = "FAILED"
                  /\ RUNS'[r].error # Null
                  /\ RUNS'[r].current_node = task[r].node_name
                  /\ RUNS'[r].log
                        = Append(RUNS[r].log,
                                 RunLogEntry(task[r].node_name, RUNS'[r].state))
                  /\ task'[r].pc = "done"
      ]_vars

\* a run has FAILED on the comparison of null with a number under gte, with
\* the entry of the node just executed logged, although an unconditional
\* edge from that node is declared after the failing one
C18_Witness ==
    \E r \in RunIds :
       /\ RUNS[r].status = "FAILED"
       /\ RUNS[r].error = "TypeError"
       /\ Len(RUNS[r].log) = 1
       /\ RUNS[r].current_node = LastEntry(RUNS[r]).node
       /\ \E i, j \in DOMAIN GraphOf(r).edges :
             /\ i < j
             /\ EdgeRaises(GraphOf(r), i, RUNS[r].current_node, RUNS[r].state)
             /\ Get(RUNS[r].state, GraphOf(r).edges[i].condition_key) = NoneV
             /\ GraphOf(r).edges[j].from_node = RUNS[r].current_node
             /\ GraphOf(r).edges[j].condition_key = Null

\* values an edge is declared with; NoneV is also what an edge declared
\* without a value has
EdgeValues ==
    {NoneV, IntV(0), IntV(1), BoolV(FALSE), BoolV(TRUE), StrV(1)}

\* what C19 says of one state mapping: for every key it does not contain
\* and every edge value, the eq edge is taken exactly when the value is
\* null, the ne edge exactly when it is not, and neither comparison raises
AbsentKeysCompare(state) ==
    \A key \in Keys :
       state[key] = Absent =>
          \A value \in EdgeValues :
             /\ TryEdge(EdgeDef("A", "B", key, "eq", value), state)
                   = IF value = NoneV THEN "match" ELSE "skip"
             /\ TryEdge(EdgeDef("A", "B", key, "ne", value), state)
                   = IF value = NoneV THEN "skip" ELSE "match"

\* C19: on every state mapping a run starts with or gets from a tool, an
\* edge conditioned with eq on a key the mapping does not contain is taken
\* exactly when the edge's value is null, one conditioned with ne exactly
\* when it is not null, and neither comparison raises; the run on the
\* graph "optional", whose edges test the absent key code, never fails and
\* visits A, B, C.
C19_AbsentKeyEqNe ==
    /\ [][\A r \in 1..Len(RUNS') :
            (r \notin RunIds \/ RUNS'[r].state # RUNS[r].state)
            => AbsentKeysCompare(RUNS'[r].state)
         ]_vars
    /\ [](\A r \in RunIds :
            requests[r] = GraphRunRequest("optional", StateOne) =>
               /\ RUNS[r].status # "FAILED"
               /\ \A i \in DOMAIN RUNS[r].log :
                     RUNS[r].log[i].node = <<"A", "B", "C">>[i]
               /\ RUNS[r].status = "COMPLETED" => Len(RUNS[r].log) = 3)

\* the run on "optional" has COMPLETED at C without the key code: at A it
\* passed over an eq edge with a value and a ne edge with null and took the
\* eq edge with null, at B it took the ne edge with a value
C19_Witness ==
    \E r \in RunIds :
       /\ requests[r] = GraphRunRequest("optional", StateOne)
       /\ RUNS[r].status = "COMPLETED"
       /\ RUNS[r].state["code"] = Absent
       /\ Nodes(RUNS[r].log) = <<"A", "B", "C">>

\* what edge selection returns for the node of entry i of run r's log on
\* that entry's state_snapshot, read now
NextOfEntry(r, i) ==
    _next_node_name(GraphOf(r), RUNS[r].log[i].node,
                    View(RUNS[r].log[i].state_snapshot, heap[r]))

\* C20: a run's log only grows, by one entry appended per step; its first
\* entry names the start_node of the run's graph; and in every state, for
\* every two consecutive entries, edge selection for the earlier entry's
\* node on the earlier entry's state_snapshot returns the later entry's
\* node.
C20_LogIsPath ==
    /\ [][\A r \in RunIds :
            \/ RUNS'[r].log = RUNS[r].log
            \/ /\ Len(RUNS'[r].log) = Len(RUNS[r].log) + 1
               /\ SubSeq(RUNS'[r].log, 1, Len(RUNS[r].log)) = RUNS[r].log
         ]_vars
    /\ [](\A r \in RunIds :
            /\ RUNS[r].log # <<>> =>
                  RUNS[r].log[1].node = GraphOf(r).start_node
            /\ \A i \in 1..(Len(RUNS[r].log) - 1) :
                  /\ ~NextOfEntry(r, i).raised
                  /\ NextOfEntry(r, i).next = RUNS[r].log[i + 1].node)

\* the part of C20 that the engine keeps: the log is append-only, starts at
\* start_node, and the node of each new entry is what edge selection
\* returned for the entry before it when that entry was appended
C20_PathWhenTaken ==
    [][\A r \in RunIds :
         /\ \/ RUNS'[r].log = RUNS[r].log
            \/ /\ Len(RUNS'[r].log) = Len(RUNS[r].log) + 1
               /\ SubSeq(RUNS'[r].log, 1, Len(RUNS[r].log)) = RUNS[r].log
         /\ (VisitCompleted(r) /\ RUNS[r].log = <<>>) =>
               LastEntry(RUNS'[r]).node = GraphOf(r).start_node
         /\ (VisitCompleted(r) /\ task'[r].pc = "visit") =>
               task'[r].node_name
                  = _next_node_name(GraphOf(r), LastEntry(RUNS'[r]).node,
                                    View(LastEntry(RUNS'[r]).state_snapshot,
                                         heap'[r])).next
         /\ (VisitCompleted(r) /\ RUNS[r].log # <<>>) =>
               LastEntry(RUNS'[r]).node = task[r].node_name
      ]_vars

\* a run on "grow" has logged A twice: the edge A -> A matched the list of
\* one item after the first visit, and the second visit appended to the
\* same list
C20_Witness ==
    \E r \in RunIds :
       /\ RUNS[r].graph_id = "grow"
       /\ Nodes(RUNS[r].log) = <<"A", "A">>
       /\ RUNS[r].log[1].state_snapshot["issues"] = RUNS[r].state["issues"]
       /\ Len(heap[r][RUNS[r].state["issues"].v]) = 2


====
